---- MODULE Spec2Model ----
(***************************************************************************)
(* A model of src/app.py: the Flask handlers of the YouTube Music API, the *)
(* cache_with_ttl wrapper over the cachetools TTLCache instances, the      *)
(* fan-out over PIPED_INSTANCES and the instance health probe.             *)
(*                                                                         *)
(* Time is in seconds.  A request is handled by a thread that walks the    *)
(* statements of cache_with_ttl.wrapper (lines 58-63) and of the wrapped   *)
(* view function.  Each cache is the sequence of its entries in the order  *)
(* of TTLCache's internal links (least recently used first).               *)
(*                                                                         *)
(* Specifications: Spec (the decorated view functions, one request after   *)
(* another), SpecMeta (every view function that calls ytmusic, one request *)
(* after another), SpecRace (two requests at once on song_cache), SpecPool *)
(* (five requests at once on the executor), SpecLive (the stream view      *)
(* functions under fairness), SpecProbe (get_working_instance_async),      *)
(* SpecKey (cache_key on two calls).                                       *)
(***************************************************************************)
EXTENDS Integers, Sequences, FiniteSets, TLC

(***************************************************************************)
(* Bounds of the model.                                                    *)
(***************************************************************************)
\* the number of requests a behaviour serves
MaxCalls == 2
\* the number of times the clock advances
MaxTicks == 1
\* the number of requests a behaviour of the pool specification serves
MaxPoolCalls == 5
\* capacities of the caches, scaled down so that a few requests fill them:
\* Maxsize100 stands for maxsize=100, Maxsize50 for 50, Maxsize20 for 20
Maxsize100 == 2
Maxsize50 == 1
Maxsize20 == 1
\* the longest tuple of positional arguments and the largest dict of keyword
\* arguments cache_key is called with
MaxArgs == 2
MaxKwargs == 2

\* the request threads (one more than the pool has workers), the threads
\* that serve requests one after another, two threads that serve requests
\* at the same time, the identifiers a request may carry, the clock steps
Threads == {"t1", "t2", "t3", "t4", "t5"}
Serial == {"t1"}
Pair == {"t1", "t2"}
Ids == {"x", "y"}
TickSteps == {1800, 86400}
\* the names of the keyword arguments cache_key is called with
KwNames == {"browse_id", "params", "video_id"}

(***************************************************************************)
(* Program constants.                                                      *)
(***************************************************************************)
\* PIPED_INSTANCES, by position in the list
NumInstances == 4
PIPED_INSTANCES == 1..NumInstances
\* ThreadPoolExecutor(max_workers=4)
max_workers == 4

CacheNames == {"song_cache", "artist_cache", "search_cache", "streams_cache",
               "playlist_cache", "lyrics_cache", "mood_cache"}

ttl(c) ==
  CASE c = "song_cache" -> 3600
    [] c = "artist_cache" -> 3600
    [] c = "search_cache" -> 1800
    [] c = "streams_cache" -> 300
    [] c = "playlist_cache" -> 1800
    [] c = "lyrics_cache" -> 7200
    [] c = "mood_cache" -> 86400

maxsize(c) ==
  CASE c = "song_cache" -> Maxsize100
    [] c = "artist_cache" -> Maxsize100
    [] c = "search_cache" -> Maxsize100
    [] c = "streams_cache" -> Maxsize100
    [] c = "playlist_cache" -> Maxsize50
    [] c = "lyrics_cache" -> Maxsize50
    [] c = "mood_cache" -> Maxsize20

(***************************************************************************)
(* The view functions.                                                     *)
(***************************************************************************)
MetaOps == {"search", "song", "artist", "playlist", "album", "lyrics",
            "related", "moods", "mood_playlists"}
StreamOps == {"audio", "streams"}
WrappedOps == MetaOps \cup StreamOps
\* the view functions without @cache_with_ttl: get_search_suggestions,
\* get_watch_playlist
UnwrappedOps == {"suggestions", "watch"}
\* the view functions that call ytmusic
ClientOps == MetaOps \cup UnwrappedOps

\* the cache given to @cache_with_ttl on each view function
CacheOf(o) ==
  CASE o = "search" -> "search_cache"
    [] o = "song" -> "song_cache"
    [] o = "artist" -> "artist_cache"
    [] o = "playlist" -> "playlist_cache"
    [] o = "album" -> "song_cache"
    [] o = "lyrics" -> "lyrics_cache"
    [] o = "related" -> "song_cache"
    [] o = "moods" -> "mood_cache"
    [] o = "mood_playlists" -> "mood_cache"
    [] o = "audio" -> "streams_cache"
    [] o = "streams" -> "streams_cache"

\* the URL variable of the route, which Flask passes as a keyword argument
PathParam(o) ==
  CASE o = "song" -> "video_id"
    [] o = "artist" -> "channel_id"
    [] o = "playlist" -> "playlist_id"
    [] o = "album" -> "browse_id"
    [] o = "lyrics" -> "browse_id"
    [] o = "related" -> "browse_id"
    [] o = "mood_playlists" -> "params"
    [] OTHER -> "none"

\* the view functions that read the query string (request.args)
QueryOps == {"search", "audio", "streams"}
\* the view functions that parse request.args 'limit' with int()
LimitOps == {"search", "playlist", "watch"}
\* where a view function's return value goes: into the wrapper's store, or
\* straight back to Flask
After(o) == IF o \in WrappedOps THEN "store" ELSE "done"

(***************************************************************************)
(* cache_key: str(args) + str(sorted(kwargs.items())).  args is the tuple  *)
(* of positional arguments; kwargs is the dict of keyword arguments, given *)
(* as its items in insertion order, which is the order of the call.  A     *)
(* string is the sequence of its pieces.                                   *)
(***************************************************************************)
\* the argument names of the view functions, in the order of str's '<'
NameOrder == <<"browse_id", "channel_id", "params", "playlist_id", "video_id">>
Rank(n) == CHOOSE i \in 1..Len(NameOrder) : NameOrder[i] = n

\* (name, value) < (name', value') on tuples: the names of a dict differ, so
\* the names decide
Before(p, q) == Rank(p[1]) < Rank(q[1])

\* a faulty variant of SortedItems: the items in the order of the call
UnsortedItems(kwargs) == kwargs

\* sorted(kwargs.items())
RECURSIVE SortedItems(_)
SortedItems(kwargs) ==
  IF kwargs = <<>> THEN <<>>
  ELSE LET p == Head(kwargs)
           s == SortedItems(Tail(kwargs))
           k == Cardinality({i \in 1..Len(s) : Before(s[i], p)})
       IN  SubSeq(s, 1, k) \o <<p>> \o SubSeq(s, k + 1, Len(s))

\* repr of a str value
Repr(v) == <<"'", v, "'">>

\* the pieces joined with ', '
RECURSIVE Join(_)
Join(parts) ==
  IF parts = <<>> THEN <<>>
  ELSE IF Len(parts) = 1 THEN parts[1]
  ELSE parts[1] \o <<", ">> \o Join(Tail(parts))

\* str of a tuple of str values: '()', "('x',)", "('x', 'y')"
StrTuple(tup) ==
  <<"(">> \o Join([i \in 1..Len(tup) |-> Repr(tup[i])])
          \o (IF Len(tup) = 1 THEN <<",">> ELSE <<>>) \o <<")">>

\* str of a list of tuples: '[]', "[('a', 'x')]", "[('a', 'x'), ('b', 'y')]"
StrList(lst) ==
  <<"[">> \o Join([i \in 1..Len(lst) |-> StrTuple(lst[i])]) \o <<"]">>

cache_key(args, kwargs) == StrTuple(args) \o StrList(SortedItems(kwargs))

\* the keyword arguments Flask passes to the view function of o for path value a
ViewArgs(o, a) ==
  IF PathParam(o) = "none" THEN <<>> ELSE << <<PathParam(o), a>> >>

(***************************************************************************)
(* cachetools.TTLCache (version 5), as the wrapper uses it.  An entry is   *)
(* [key, val, exp]; it is live while now < exp.  An expired entry stays in *)
(* the cache until the next store removes it.                              *)
(***************************************************************************)
IndexOf(seq, k) ==
  IF \E i \in 1..Len(seq) : seq[i].key = k
  THEN CHOOSE i \in 1..Len(seq) : seq[i].key = k
  ELSE 0

Without(seq, i) ==
  [j \in 1..(Len(seq) - 1) |-> IF j < i THEN seq[j] ELSE seq[j + 1]]

\* faulty variants of Contains: the expiry comparison reversed; the expiry
\* ignored
ContainsReversed(seq, k, time) ==
  \E i \in 1..Len(seq) : seq[i].key = k /\ seq[i].exp < time

ContainsIgnoringExpiry(seq, k, time) ==
  \E i \in 1..Len(seq) : seq[i].key = k

\* key in cache (TTLCache.__contains__)
Contains(seq, k, time) ==
  \E i \in 1..Len(seq) : seq[i].key = k /\ time < seq[i].exp

\* cache[key] (TTLCache.__getitem__): the entry becomes the most recently used
Touch(seq, k) ==
  LET i == IndexOf(seq, k)
  IN  IF i = 0 THEN seq ELSE Append(Without(seq, i), seq[i])

\* TTLCache.expire: drop every entry that is no longer live
Expire(seq, time) == SelectSeq(seq, LAMBDA e : time < e.exp)

\* a faulty variant of Evict: nothing is evicted
EvictNothing(seq, k, max) == seq

\* Cache.__setitem__: popitem() until the new entry fits
Evict(seq, k, max) ==
  IF IndexOf(seq, k) = 0 /\ Len(seq) >= max
  THEN SubSeq(seq, Len(seq) - max + 2, Len(seq))
  ELSE seq

\* a faulty variant of SetItem: an entry that is there is kept as it is
SetItemKeepFirst(seq, k, v, time, c) ==
  LET live == Expire(seq, time)
  IN  IF IndexOf(live, k) # 0 THEN live
      ELSE Append(Evict(live, k, maxsize(c)),
                  [key |-> k, val |-> v, exp |-> time + ttl(c)])

\* cache[key] = value (TTLCache.__setitem__) at time 'time' in cache c
SetItem(seq, k, v, time, c) ==
  LET live == Expire(seq, time)
      room == Evict(live, k, maxsize(c))
      i == IndexOf(room, k)
      rest == IF i = 0 THEN room ELSE Without(room, i)
  IN  Append(rest, [key |-> k, val |-> v, exp |-> time + ttl(c)])

Keys(seq) == {seq[i].key : i \in 1..Len(seq)}

(***************************************************************************)
(* State.                                                                  *)
(***************************************************************************)
VARIABLES
  now,      \* the clock (time.monotonic), in seconds
  ticks,    \* how often the clock has advanced
  calls,    \* how many requests have arrived
  execs,    \* how many times a wrapped view function body has been entered
  cache,    \* cache[c]: the entries of TTLCache c, least recently used first
  pc,       \* pc[t]: the statement thread t is at
  req,      \* req[t]: the request thread t serves
  key,      \* key[t]: the wrapper's local 'key'
  result,   \* result[t]: the wrapper's local 'result' / the value it returns
  path,     \* path[t]: how the wrapper answered: hit, miss, expired, keyerror
  results,  \* results[t][i]: what the fetch from instance i returned; the
            \* view function's local, kept until the wrapper has stored
  first,    \* first[t]: the instance whose fetch completed first (0: none yet)
  expiry,   \* expiry[t]: the expiry the wrapper's store gave its entry (0: none)
  prev,     \* history: the request served last, with its answer
  ppc,      \* where get_working_instance_async is at
  probed,   \* probed[i]: what instance i did with the health check
  health,   \* health[i]: what check_instance_health(i) returned
  chosen,   \* the instance get_working_instance_async returned (0: none yet)
  fcalls,   \* the calls made to cache_key: their arguments, in order
  fkeys     \* the keys cache_key returned for them

reqvars == <<now, ticks, calls, execs, cache, pc, req, key, result, path,
             results, first, expiry, prev>>
probevars == <<ppc, probed, health, chosen>>
keyvars == <<fcalls, fkeys>>
vars == <<reqvars, probevars, keyvars>>

NoReq == [op |-> "none", a |-> "", q |-> "", lim |-> "int"]
NoResult == [status |-> 0, obj |-> 0, op |-> "none", a |-> "", q |-> "",
             inst |-> 0, data |-> 0]
NoResults == [i \in PIPED_INSTANCES |-> "unset"]
NoKey == <<>>
NoPrev == [req |-> NoReq, key |-> NoKey, result |-> NoResult, path |-> "none",
           expiry |-> 0, execs |-> 0]

\* a response: its HTTP status, the body execution that produced it, the
\* request it was computed for, and for a stream the instance named in it
\* and the instance whose data it carries
Response(status, obj, r, inst, data) ==
  [status |-> status, obj |-> obj, op |-> r.op, a |-> r.a, q |-> r.q,
   inst |-> inst, data |-> data]

Init ==
  /\ now = 0
  /\ ticks = 0
  /\ calls = 0
  /\ execs = 0
  /\ cache = [c \in CacheNames |-> <<>>]
  /\ pc = [t \in Threads |-> "idle"]
  /\ req = [t \in Threads |-> NoReq]
  /\ key = [t \in Threads |-> NoKey]
  /\ result = [t \in Threads |-> NoResult]
  /\ path = [t \in Threads |-> "none"]
  /\ results = [t \in Threads |-> NoResults]
  /\ first = [t \in Threads |-> 0]
  /\ expiry = [t \in Threads |-> 0]
  /\ prev = NoPrev
  /\ ppc = "idle"
  /\ probed = [i \in PIPED_INSTANCES |-> "unset"]
  /\ health = [i \in PIPED_INSTANCES |-> "unset"]
  /\ chosen = 0
  /\ fcalls = <<>>
  /\ fkeys = <<>>

(***************************************************************************)
(* cache_with_ttl.wrapper                                                  *)
(***************************************************************************)
\* a request for view function o arrives: key = cache_key(*args, **kwargs)
\* (a view function without the wrapper is entered at once); n bounds the
\* number of requests
Start(t, o, a, q, lim, n) ==
  /\ pc[t] = "idle"
  /\ calls < n
  /\ a \in (IF PathParam(o) = "none" THEN {""} ELSE Ids)
  /\ q \in (IF o \in {"search", "suggestions"} THEN Ids
            ELSE IF o \in StreamOps \cup {"watch"} THEN Ids \cup {""} ELSE {""})
  /\ lim \in (IF o \in LimitOps THEN {"int", "bad"} ELSE {"int"})
  /\ calls' = calls + 1
  /\ req' = [req EXCEPT ![t] = [op |-> o, a |-> a, q |-> q, lim |-> lim]]
  /\ IF o \in WrappedOps
     THEN /\ key' = [key EXCEPT ![t] = cache_key(<<>>, ViewArgs(o, a))]
          /\ pc' = [pc EXCEPT ![t] = "check"]
          /\ path' = path
     ELSE /\ key' = key
          /\ pc' = [pc EXCEPT ![t] = "call"]
          /\ path' = [path EXCEPT ![t] = "unwrapped"]
  /\ UNCHANGED <<now, ticks, execs, cache, result, results, first, prev, expiry, probevars, keyvars>>

\* if key in cache:
Check(t) ==
  /\ pc[t] = "check"
  /\ LET c == cache[CacheOf(req[t].op)]
     IN  IF Contains(c, key[t], now)
         THEN /\ pc' = [pc EXCEPT ![t] = "read"]
              /\ path' = path
         ELSE /\ pc' = [pc EXCEPT ![t] = "call"]
              /\ path' = [path EXCEPT ![t] =
                            IF IndexOf(c, key[t]) = 0 THEN "miss" ELSE "expired"]
  /\ UNCHANGED <<now, ticks, calls, execs, cache, req, key, result, results, first, prev, expiry, probevars, keyvars>>

\* return cache[key]; an entry that has expired since the test raises
\* KeyError, which Flask answers with its 500 handler
Read(t) ==
  /\ pc[t] = "read"
  /\ LET cn == CacheOf(req[t].op)
         c == cache[cn]
     IN  /\ cache' = [cache EXCEPT ![cn] = Touch(c, key[t])]
         /\ IF Contains(c, key[t], now)
            THEN /\ result' = [result EXCEPT ![t] = c[IndexOf(c, key[t])].val]
                 /\ path' = [path EXCEPT ![t] = "hit"]
            ELSE /\ result' = [result EXCEPT ![t] = Response(500, 0, req[t], 0, 0)]
                 /\ path' = [path EXCEPT ![t] = "keyerror"]
  /\ pc' = [pc EXCEPT ![t] = "done"]
  /\ UNCHANGED <<now, ticks, calls, execs, req, key, results, first, prev, expiry, probevars, keyvars>>

\* cache[key] = result
Store(t) ==
  /\ pc[t] = "store"
  /\ LET cn == CacheOf(req[t].op)
     IN  cache' = [cache EXCEPT ![cn] = SetItem(cache[cn], key[t], result[t], now, cn)]
  /\ expiry' = [expiry EXCEPT ![t] = now + ttl(CacheOf(req[t].op))]
  /\ pc' = [pc EXCEPT ![t] = "done"]
  /\ results' = [results EXCEPT ![t] = NoResults]
  /\ first' = [first EXCEPT ![t] = 0]
  /\ UNCHANGED <<now, ticks, calls, execs, req, key, result, path, prev, probevars, keyvars>>

\* return result: the response leaves and the thread is free again
Return(t) ==
  /\ pc[t] = "done"
  /\ pc' = [pc EXCEPT ![t] = "idle"]
  /\ req' = [req EXCEPT ![t] = NoReq]
  /\ key' = [key EXCEPT ![t] = NoKey]
  /\ result' = [result EXCEPT ![t] = NoResult]
  /\ path' = [path EXCEPT ![t] = "none"]
  /\ results' = [results EXCEPT ![t] = NoResults]
  /\ first' = [first EXCEPT ![t] = 0]
  /\ expiry' = [expiry EXCEPT ![t] = 0]
  /\ prev' = [req |-> req[t], key |-> key[t], result |-> result[t],
              path |-> path[t], expiry |-> expiry[t], execs |-> execs]
  /\ UNCHANGED <<now, ticks, calls, execs, cache, probevars, keyvars>>

(***************************************************************************)
(* The metadata view functions: search, get_search_suggestions,            *)
(* get_song_info, get_artist_info, get_playlist_info, get_album_info,      *)
(* get_lyrics, get_watch_playlist, get_related_songs, get_mood_categories, *)
(* get_mood_playlists.                                                     *)
(***************************************************************************)
\* a faulty variant of Busy: the pool does not count its running workers
BusyNone == {}

\* the pool workers that are running a submitted call
Busy == {u \in Threads : pc[u] = "running"}

\* the body up to executor.submit(...): int(limit) may raise, which the
\* except clause turns into a 400 response, and get_watch_playlist answers
\* 400 itself when it has neither video_id nor playlist_id; otherwise the
\* call is submitted (status 0: no response yet)
Submit(t) ==
  /\ pc[t] = "call"
  /\ req[t].op \in ClientOps
  /\ execs' = execs + 1
  /\ IF \/ req[t].op \in LimitOps /\ req[t].lim = "bad"
        \/ req[t].op = "watch" /\ req[t].q = ""
     THEN /\ result' = [result EXCEPT ![t] = Response(400, execs', req[t], 0, 0)]
          /\ pc' = [pc EXCEPT ![t] = After(req[t].op)]
     ELSE /\ result' = [result EXCEPT ![t] = Response(0, execs', req[t], 0, 0)]
          /\ pc' = [pc EXCEPT ![t] = "queued"]
  /\ UNCHANGED <<now, ticks, calls, cache, req, key, path, results, first, prev, expiry, probevars, keyvars>>

\* a free worker of the pool takes the submitted call
WorkerStart(t) ==
  /\ pc[t] = "queued"
  /\ Cardinality(Busy) < max_workers
  /\ pc' = [pc EXCEPT ![t] = "running"]
  /\ UNCHANGED <<now, ticks, calls, execs, cache, req, key, result, path, results, first, prev, expiry, probevars, keyvars>>

\* .result(): the ytmusic call returns (jsonify(result)) or raises (the
\* except clause answers 400)
WorkerDone(t, ok) ==
  /\ pc[t] = "running"
  /\ result' = [result EXCEPT ![t] =
                  Response(IF ok THEN 200 ELSE 400, result[t].obj, req[t], 0, 0)]
  /\ pc' = [pc EXCEPT ![t] = After(req[t].op)]
  /\ UNCHANGED <<now, ticks, calls, execs, cache, req, key, path, results, first, prev, expiry, probevars, keyvars>>

(***************************************************************************)
(* The stream view functions: get_audio_url, get_stream_urls.              *)
(***************************************************************************)
\* what an instance may do with GET {instance}/streams/{video_id}
FetchOutcomes == {"error", "timeout", "non200", "emptybody", "badjson",
                  "novariants", "full"}

\* ("novariants": a JSON object whose audioStreams and videoStreams are empty
\* lists; "full": a JSON object with audio and video variants)

\* get_streams_data_async: ClientError and TimeoutError are caught and a
\* status other than 200 falls through, all to return None; an empty body
\* makes response.json() return None; a body that is not JSON makes it raise
\* a JSONDecodeError, which is not caught; otherwise the parsed body
get_streams_data_async(outcome) ==
  CASE outcome \in {"error", "timeout"} -> "None"
    [] outcome = "non200" -> "None"
    [] outcome = "emptybody" -> "None"
    [] outcome = "badjson" -> "raised"
    [] OTHER -> outcome

\* asyncio.gather(*tasks): the result of task i is at position i
gather(res, i, r) == [res EXCEPT ![i] = r]

\* result and 'audioStreams' in result and result['audioStreams']
HasAudio(r) == r = "full"
\* if result:
Truthy(r) == r \notin {"None"}

\* a faulty variant of AudioScan: the loop does not stop at the first match,
\* so the last one wins
RECURSIVE AudioScanLast(_, _)
AudioScanLast(res, i) ==
  IF i > NumInstances THEN 0
  ELSE LET later == AudioScanLast(res, i + 1)
       IN  IF later # 0 THEN later
           ELSE IF HasAudio(res[i]) THEN i ELSE 0

\* the loop of get_audio_url from position i: the first instance whose
\* result has an audio stream, 0 when the loop ends without one
RECURSIVE AudioScan(_, _)
AudioScan(res, i) ==
  IF i > NumInstances THEN 0
  ELSE IF HasAudio(res[i]) THEN i
  ELSE AudioScan(res, i + 1)

\* the loop of get_stream_urls from position i: the first instance whose
\* result is truthy, 0 when the loop ends without one
RECURSIVE StreamScan(_, _)
StreamScan(res, i) ==
  IF i > NumInstances THEN 0
  ELSE IF Truthy(res[i]) THEN i
  ELSE StreamScan(res, i + 1)

\* the body up to run_async(fetch_streams_from_instances(video_id)): a
\* request without videoId is answered 400, otherwise one fetch per instance
FanOut(t) ==
  /\ pc[t] = "call"
  /\ req[t].op \in StreamOps
  /\ execs' = execs + 1
  /\ IF req[t].q = ""
     THEN /\ result' = [result EXCEPT ![t] = Response(400, execs', req[t], 0, 0)]
          /\ pc' = [pc EXCEPT ![t] = "store"]
          /\ results' = results
     ELSE /\ result' = [result EXCEPT ![t] = Response(0, execs', req[t], 0, 0)]
          /\ pc' = [pc EXCEPT ![t] = "gather"]
          /\ results' = [results EXCEPT ![t] = [i \in PIPED_INSTANCES |-> "pending"]]
  /\ UNCHANGED <<now, ticks, calls, cache, req, key, path, first, prev, expiry, probevars, keyvars>>

\* the fetch from instance i completes; an exception that leaves the task
\* leaves gather and run_async, and the except clause answers 500
FetchDone(t, i, outcome) ==
  /\ pc[t] = "gather"
  /\ results[t][i] = "pending"
  /\ LET r == get_streams_data_async(outcome)
     IN  /\ results' = [results EXCEPT ![t] = gather(results[t], i, r)]
         /\ IF r = "raised"
            THEN /\ result' = [result EXCEPT ![t] = Response(500, result[t].obj, req[t], 0, 0)]
                 /\ pc' = [pc EXCEPT ![t] = "store"]
            ELSE /\ result' = result
                 /\ pc' = pc
  /\ first' = [first EXCEPT ![t] = IF first[t] = 0 THEN i ELSE first[t]]
  /\ UNCHANGED <<now, ticks, calls, execs, cache, req, key, path, prev, expiry, probevars, keyvars>>

\* a faulty variant of AllDone: the join waits for an answer from every
\* instance
AllAnswered(res) == \A i \in PIPED_INSTANCES : res[i] \notin {"pending", "None"}

\* await asyncio.gather(*tasks) returns: every task has completed
AllDone(res) == \A i \in PIPED_INSTANCES : res[i] # "pending"

\* every fetch has completed: the loop over zip(results, PIPED_INSTANCES)
Scan(t) ==
  /\ pc[t] = "gather"
  /\ AllDone(results[t])
  /\ LET j == IF req[t].op = "audio" THEN AudioScan(results[t], 1)
                                     ELSE StreamScan(results[t], 1)
     IN  result' = [result EXCEPT ![t] =
                      IF j = 0 THEN Response(503, result[t].obj, req[t], 0, 0)
                               ELSE Response(200, result[t].obj, req[t], j, j)]
  /\ pc' = [pc EXCEPT ![t] = "store"]
  /\ UNCHANGED <<now, ticks, calls, execs, cache, req, key, path, results, first, prev, expiry, probevars, keyvars>>

(***************************************************************************)
(* The clock, and the specification.                                       *)
(***************************************************************************)
Tick(d) ==
  /\ ticks < MaxTicks
  /\ ticks' = ticks + 1
  /\ now' = now + d
  /\ UNCHANGED <<calls, execs, cache, pc, req, key, result, path, results, first, prev, expiry, probevars, keyvars>>

\* the steps of the threads T serving n requests for the view functions O
NextOf(T, O, n) ==
  \/ \E t \in T, o \in O, a, q \in Ids \cup {""}, lim \in {"int", "bad"} :
       Start(t, o, a, q, lim, n)
  \/ \E t \in T : Check(t)
  \/ \E t \in T : Read(t)
  \/ \E t \in T : Submit(t)
  \/ \E t \in T : WorkerStart(t)
  \/ \E t \in T, ok \in BOOLEAN : WorkerDone(t, ok)
  \/ \E t \in T : FanOut(t)
  \/ \E t \in T, i \in PIPED_INSTANCES, outcome \in FetchOutcomes :
       FetchDone(t, i, outcome)
  \/ \E t \in T : Scan(t)
  \/ \E t \in T : Store(t)
  \/ \E t \in T : Return(t)
  \/ \E d \in TickSteps : Tick(d)

\* requests served one after another
Next == NextOf(Serial, WrappedOps, MaxCalls)

Spec == Init /\ [][Next]_vars

\* requests for the view functions that call ytmusic, one after another
NextMeta ==
  \/ \E o \in ClientOps, a, q \in Ids \cup {""}, lim \in {"int", "bad"} :
       Start("t1", o, a, q, lim, MaxCalls)
  \/ Check("t1")
  \/ Read("t1")
  \/ Submit("t1")
  \/ WorkerStart("t1")
  \/ \E ok \in BOOLEAN : WorkerDone("t1", ok)
  \/ Store("t1")
  \/ Return("t1")
  \/ \E d \in TickSteps : Tick(d)

SpecMeta == Init /\ [][NextMeta]_vars

\* two threads at once on get_song_info and get_album_info, which share
\* song_cache
NextRace ==
  \/ \E t \in Pair, o \in {"song", "album"}, a \in Ids :
       Start(t, o, a, "", "int", MaxCalls)
  \/ \E t \in Pair : Check(t)
  \/ \E t \in Pair : Read(t)
  \/ \E t \in Pair : Submit(t)
  \/ \E t \in Pair : WorkerStart(t)
  \/ \E t \in Pair, ok \in BOOLEAN : WorkerDone(t, ok)
  \/ \E t \in Pair : Store(t)
  \/ \E t \in Pair : Return(t)

SpecRace == Init /\ [][NextRace]_vars

\* stream requests one after another, within the time-to-live of the first;
\* every step of the wrapper and of the view function is taken once it can
\* be, and every fetch ends, by its answer, its error or its timeout=5
NextLive ==
  \/ \E o \in StreamOps, q \in Ids \cup {""} : Start("t1", o, "", q, "int", MaxCalls)
  \/ Check("t1")
  \/ Read("t1")
  \/ FanOut("t1")
  \/ \E i \in PIPED_INSTANCES, outcome \in FetchOutcomes : FetchDone("t1", i, outcome)
  \/ Scan("t1")
  \/ Store("t1")
  \/ Return("t1")

Fairness ==
  /\ WF_vars(Check("t1"))
  /\ WF_vars(Read("t1"))
  /\ WF_vars(FanOut("t1"))
  /\ \A i \in PIPED_INSTANCES :
       WF_vars(\E outcome \in FetchOutcomes : FetchDone("t1", i, outcome))
  /\ WF_vars(Scan("t1"))
  /\ WF_vars(Store("t1"))
  /\ WF_vars(Return("t1"))

SpecLive == Init /\ [][NextLive]_vars /\ Fairness

\* every request thread at once on get_search_suggestions, which goes to the
\* pool on every request (the query plays no part in the pool: one value)
NextPool ==
  \/ \E t \in Threads : Start(t, "suggestions", "", "x", "int", MaxPoolCalls)
  \/ \E t \in Threads : Submit(t)
  \/ \E t \in Threads : WorkerStart(t)
  \/ \E t \in Threads, ok \in BOOLEAN : WorkerDone(t, ok)
  \/ \E t \in Threads : Return(t)

SpecPool == Init /\ [][NextPool]_vars

(***************************************************************************)
(* get_working_instance_async: the health probe and the instance choice.   *)
(***************************************************************************)
\* what an instance may do with GET {instance}/healthcheck
HealthOutcomes == {"200", "204", "500", "error", "timeout"}

\* check_instance_health: response.status == 200, and False on any exception
check_instance_health(outcome) ==
  IF outcome = "200" THEN "True" ELSE "False"

\* working_instances: the instances whose check returned True
working_instances(h) == {i \in PIPED_INSTANCES : h[i] = "True"}

\* a faulty variant of Candidates: no fallback to the whole list
CandidatesNoFallback(h) == working_instances(h)

\* the instances random.choice may return: one of working_instances, or one
\* of PIPED_INSTANCES when there is none
Candidates(h) ==
  IF working_instances(h) # {} THEN working_instances(h) ELSE PIPED_INSTANCES

\* tasks = [check_instance_health(instance) for instance in PIPED_INSTANCES]
ProbeStart ==
  /\ ppc = "idle"
  /\ ppc' = "probing"
  /\ probed' = [i \in PIPED_INSTANCES |-> "pending"]
  /\ health' = [i \in PIPED_INSTANCES |-> "pending"]
  /\ chosen' = 0
  /\ UNCHANGED <<reqvars, keyvars>>

\* the check of instance i completes
HealthDone(i, outcome) ==
  /\ ppc = "probing"
  /\ health[i] = "pending"
  /\ probed' = [probed EXCEPT ![i] = outcome]
  /\ health' = [health EXCEPT ![i] = check_instance_health(outcome)]
  /\ UNCHANGED <<ppc, chosen, reqvars, keyvars>>

\* results = await asyncio.gather(*tasks), then random.choice, which raises
\* IndexError on an empty list
Select(c) ==
  /\ ppc = "probing"
  /\ \A i \in PIPED_INSTANCES : health[i] # "pending"
  /\ IF Candidates(health) = {}
     THEN /\ c = 0
          /\ chosen' = 0
          /\ ppc' = "failed"
     ELSE /\ c \in Candidates(health)
          /\ chosen' = c
          /\ ppc' = "done"
  /\ UNCHANGED <<probed, health, reqvars, keyvars>>

\* the caller has the instance
ProbeReturn ==
  /\ ppc = "done"
  /\ ppc' = "idle"
  /\ probed' = [i \in PIPED_INSTANCES |-> "unset"]
  /\ health' = [i \in PIPED_INSTANCES |-> "unset"]
  /\ chosen' = 0
  /\ UNCHANGED <<reqvars, keyvars>>

NextProbe ==
  \/ ProbeStart
  \/ \E i \in PIPED_INSTANCES, outcome \in HealthOutcomes : HealthDone(i, outcome)
  \/ \E c \in PIPED_INSTANCES \cup {0} : Select(c)
  \/ ProbeReturn

SpecProbe == Init /\ [][NextProbe]_vars

(***************************************************************************)
(* cache_key on its own: two calls of a wrapped function with positional   *)
(* and keyword arguments.                                                  *)
(***************************************************************************)
\* the tuples of positional arguments
ArgTuples == UNION {[1..n -> Ids] : n \in 0..MaxArgs}
\* the dicts of keyword arguments, as their items in the order of the call
KwDicts ==
  {k \in UNION {[1..n -> KwNames \X Ids] : n \in 0..MaxKwargs} :
     \A i, j \in DOMAIN k : i # j => k[i][1] # k[j][1]}

\* key = cache_key(*args, **kwargs) for the call f(*a, **k)
KeyCall(a, k) ==
  /\ Len(fcalls) < 2
  /\ fcalls' = Append(fcalls, [args |-> a, kwargs |-> k])
  /\ fkeys' = Append(fkeys, cache_key(a, k))
  /\ UNCHANGED <<reqvars, probevars>>

NextKey == \E a \in ArgTuples, k \in KwDicts : KeyCall(a, k)

SpecKey == Init /\ [][NextKey]_vars

(***************************************************************************)
(* Properties.                                                             *)
(***************************************************************************)
\* the entry stored under k, when there is one
EntryOf(seq, k) == seq[IndexOf(seq, k)]
Executed(p) == p \in {"miss", "expired"}
Complete(res) == \A i \in PIPED_INSTANCES : res[i] \in {"None", "novariants", "full"}
Usable(res) == {i \in PIPED_INSTANCES : res[i] = "full"}
Lowest(S) == CHOOSE i \in S : \A j \in S : i <= j

\* C1: when a request repeats the request before it (same view function, same
\* arguments), the earlier one executed the body and stored its result, and
\* that entry's time-to-live has not elapsed, then the later one is answered
\* from the cache with that very result and the body has not run again.
C1_RepeatWithinTtlHits ==
  \A t \in Threads :
    (/\ pc[t] = "done"
     /\ prev.req = req[t]
     /\ Executed(prev.path)
     /\ now < prev.expiry)
    => /\ path[t] = "hit"
       /\ result[t] = prev.result
       /\ execs = prev.execs

C1_Witness ==
  \E t \in Threads :
    /\ pc[t] = "done" /\ path[t] = "hit"
    /\ prev.req = req[t] /\ Executed(prev.path)
    /\ result[t] = prev.result /\ result[t].obj = 1 /\ execs = 1 /\ calls = 2
    /\ 0 < now /\ now < prev.expiry

\* C2: an answer from the cache comes from an entry that is still live; a
\* membership test on an entry that has expired sends the wrapper into the
\* body; and the store inserts the result with expiry now + the cache's ttl.
C2_NoStaleEntry ==
  [][\A t \in Threads :
       LET cn == CacheOf(req[t].op)
           c == cache[cn]
       IN  /\ (pc[t] = "read" /\ pc'[t] = "done" /\ path'[t] = "hit")
                => /\ IndexOf(c, key[t]) # 0
                   /\ result'[t] = EntryOf(c, key[t]).val
                   /\ now < EntryOf(c, key[t]).exp
           /\ (pc[t] = "check" /\ pc'[t] # "check"
                 /\ IndexOf(c, key[t]) # 0 /\ now >= EntryOf(c, key[t]).exp)
                => pc'[t] = "call"
           /\ (pc[t] = "store" /\ pc'[t] = "done")
                => /\ IndexOf(cache'[cn], key[t]) # 0
                   /\ EntryOf(cache'[cn], key[t]).val = result[t]
                   /\ EntryOf(cache'[cn], key[t]).exp = now + ttl(cn)]_vars

C2_Witness ==
  \E t \in Threads :
    LET cn == CacheOf(req[t].op)
    IN  /\ pc[t] = "done" /\ path[t] = "expired"
        /\ prev.req = req[t] /\ Executed(prev.path) /\ now >= prev.expiry
        /\ result[t].obj = 2 /\ result[t] # prev.result
        /\ IndexOf(cache[cn], key[t]) # 0
        /\ EntryOf(cache[cn], key[t]).val = result[t]
        /\ EntryOf(cache[cn], key[t]).exp = now + ttl(cn)

\* C3: when the metadata client raised for a request, nothing is stored for
\* its key, and a repeat of that request calls the client again.
C3_FailureNotCached ==
  \A t \in Threads :
    (/\ pc[t] = "done"
     /\ req[t].op \in MetaOps /\ req[t].lim = "int")
    => /\ (Executed(path[t]) /\ result[t].status = 400)
            => IndexOf(cache[CacheOf(req[t].op)], key[t]) = 0
       /\ (prev.req = req[t] /\ Executed(prev.path) /\ prev.result.status = 400)
            => Executed(path[t])

\* C4: a successful answer to a search, audio or streams request was
\* computed by that view function for that request's query arguments.
C4_KeyedOnArguments ==
  \A t \in Threads :
    (/\ pc[t] = "done"
     /\ req[t].op \in {"search", "audio", "streams"}
     /\ result[t].status = 200)
    => /\ result[t].op = req[t].op
       /\ result[t].q = req[t].q

\* C5: whatever the order in which the fetches complete, get_audio_url
\* answers with the stream of the lowest instance whose result has an audio
\* stream, and names that instance; without such an instance it answers 503.
C5_AudioLowestIndex ==
  \A t \in Threads :
    (/\ pc[t] = "store"
     /\ req[t].op = "audio"
     /\ Complete(results[t]))
    => IF Usable(results[t]) = {}
       THEN result[t].status = 503
       ELSE /\ result[t].status = 200
            /\ result[t].inst = Lowest(Usable(results[t]))
            /\ result[t].data = Lowest(Usable(results[t]))

C5_Witness ==
  \E t \in Threads :
    /\ pc[t] = "store" /\ req[t].op = "audio"
    /\ results[t][1] = "None" /\ results[t][2] = "full" /\ results[t][3] = "full"
    /\ first[t] = 3
    /\ result[t].status = 200 /\ result[t].inst = 2 /\ result[t].data = 2

\* C6: when every instance failed or answered without any audio or video
\* variant, get_audio_url and get_stream_urls both answer 503.
C6_TotalFailureUnavailable ==
  \A t \in Threads :
    (/\ pc[t] = "store"
     /\ req[t].op \in StreamOps
     /\ \A i \in PIPED_INSTANCES : results[t][i] \in {"None", "novariants"})
    => result[t].status = 503

\* C7: when some instance answered with a usable variant, get_stream_urls
\* answers with the descriptor of the lowest such instance and names it.
C7_StreamsFirstUsable ==
  \A t \in Threads :
    (/\ pc[t] = "store"
     /\ req[t].op = "streams"
     /\ Complete(results[t])
     /\ Usable(results[t]) # {})
    => /\ result[t].status = 200
       /\ result[t].inst = Lowest(Usable(results[t]))
       /\ result[t].data = result[t].inst

\* C8: the failure of one fetch becomes an absent result and never leaves
\* the fan-out as an exception: a request one of whose instances answered
\* with usable variants is answered successfully.
C8_FanoutIsolatesFailure ==
  \A t \in Threads :
    /\ \A i \in PIPED_INSTANCES : results[t][i] # "raised"
    /\ (pc[t] = "store" /\ req[t].op \in StreamOps
          /\ \E i \in PIPED_INSTANCES : results[t][i] = "full")
         => result[t].status = 200

\* C9: get_working_instance_async never fails and returns a member of
\* PIPED_INSTANCES, a healthy one whenever there is one.
C9_ProbeAlwaysSelects ==
  LET healthy == {i \in PIPED_INSTANCES : health[i] = "True"}
  IN  /\ ppc # "failed"
      /\ (ppc = "probing" /\ \A i \in PIPED_INSTANCES : health[i] # "pending")
           => ENABLED (\E c \in PIPED_INSTANCES : Select(c))
      /\ ppc = "done"
           => /\ chosen \in PIPED_INSTANCES
              /\ healthy # {} => chosen \in healthy

C9_Witness ==
  /\ ppc = "done"
  /\ \A i \in PIPED_INSTANCES : health[i] = "False"
  /\ chosen \in PIPED_INSTANCES

\* C10: no cache ever holds more entries than its maximum, and no key twice.
C10_SizeBound ==
  \A c \in CacheNames :
    /\ Len(cache[c]) <= maxsize(c)
    /\ Cardinality(Keys(cache[c])) = Len(cache[c])

\* a store into a full cache has evicted the entry of the request before
C10_Witness ==
  \E t \in Threads :
    LET cn == CacheOf(req[t].op)
    IN  /\ pc[t] = "done" /\ Executed(path[t])
        /\ Executed(prev.path) /\ CacheOf(prev.req.op) = cn
        /\ prev.key # key[t] /\ now < prev.expiry
        /\ IndexOf(cache[cn], prev.key) = 0
        /\ IndexOf(cache[cn], key[t]) # 0
        /\ Len(cache[cn]) = maxsize(cn)

\* the dict a sequence of items stands for
AsDict(k) == {k[i] : i \in DOMAIN k}

\* C11: two calls with the same positional arguments and the same keyword
\* arguments, in whatever order these were given, get the same key, and the
\* second finds the entry stored under the key of the first; two calls whose
\* positional arguments differ (in order or value) or whose keyword
\* arguments differ get different keys.
C11_KeyEquivalence ==
  \A i, j \in 1..Len(fcalls) :
    LET c == fcalls[i]
        d == fcalls[j]
        stored == SetItem(<<>>, fkeys[i], 0, 0, "song_cache")
    IN  /\ (c.args = d.args /\ AsDict(c.kwargs) = AsDict(d.kwargs))
             => /\ fkeys[i] = fkeys[j]
                /\ Contains(stored, fkeys[j], 0)
        /\ (c.args # d.args \/ AsDict(c.kwargs) # AsDict(d.kwargs))
             => /\ fkeys[i] # fkeys[j]
                /\ ~Contains(stored, fkeys[j], 0)

\* the same two keyword arguments given in the two orders
C11_Witness ==
  /\ Len(fcalls) = 2
  /\ fcalls[1].args = fcalls[2].args /\ Len(fcalls[1].args) = 2
  /\ Len(fcalls[1].kwargs) = 2
  /\ fcalls[1].kwargs # fcalls[2].kwargs
  /\ AsDict(fcalls[1].kwargs) = AsDict(fcalls[2].kwargs)
  /\ fkeys[1] = fkeys[2]

\* the threads whose ytmusic call is executing
Executing == {t \in Threads : pc[t] = "running"}

\* C12: at most max_workers ytmusic calls execute at the same time; a call
\* executes only after it was submitted to the pool and taken by a worker;
\* and a caller that has submitted leaves its wait only with the outcome of
\* its own submission, a response or the 400 of the exception.
C12_BoundedPool ==
  /\ [](Cardinality(Executing) <= max_workers)
  /\ [][\A t \in Threads :
          /\ (pc'[t] = "running" /\ pc[t] # "running") => pc[t] = "queued"
          /\ (pc'[t] = "queued" /\ pc[t] # "queued")
               => pc[t] = "call" /\ result'[t].status = 0 /\ result'[t].obj = execs'
          /\ (pc[t] = "queued" /\ pc'[t] # "queued") => pc'[t] = "running"
          /\ (pc[t] = "running" /\ pc'[t] # "running")
               => /\ pc'[t] = After(req[t].op)
                  /\ result'[t].status \in {200, 400}
                  /\ result'[t].obj = result[t].obj
          /\ (req[t].op \in ClientOps /\ path[t] # "hit"
                /\ result'[t].status = 200 /\ result[t].status # 200)
               => pc[t] = "running"]_vars

\* four calls execute and a fifth caller waits for a worker
C12_Witness ==
  /\ Cardinality(Executing) = max_workers
  /\ \E t \in Threads : pc[t] = "queued" /\ result[t].obj = 5

\* C13: a successful answer from the cache was stored by the view function
\* that is answering: never an audio answer for a streams request or the reverse,
\* never an album answer for a related-songs request or the reverse.
C13_CacheIsolation ==
  \A t \in Threads :
    (pc[t] = "done" /\ path[t] = "hit" /\ result[t].status = 200)
    => result[t].op = req[t].op

\* C14: when a stream request was answered 503, the stream cache holds no
\* entry under its key, and a repeat of that request fans out again.
C14_UnavailableNotCached ==
  \A t \in Threads :
    (pc[t] = "done" /\ req[t].op \in StreamOps)
    => /\ (Executed(path[t]) /\ result[t].status = 503)
            => IndexOf(cache["streams_cache"], key[t]) = 0
       /\ (prev.req = req[t] /\ prev.result.status = 503)
            => Executed(path[t])

\* C17: a stream request without videoId starts no fetch and stores nothing
\* in the stream cache, and a stream request with a videoId is never
\* answered with the rejection of one without.
C17_RejectionLeavesCache ==
  \A t \in Threads :
    req[t].op \in StreamOps
    => /\ pc[t] = "gather" => req[t].q # ""
       /\ (pc[t] = "done" /\ req[t].q = "" /\ Executed(path[t]))
            => IndexOf(cache["streams_cache"], key[t]) = 0
       /\ (pc[t] = "done" /\ req[t].q # "")
            => ~(result[t].status = 400 /\ result[t].q = "")

\* C19: a request that found its key in the cache is answered with the
\* entry or, when the entry has gone since, with a fresh result; never with
\* the failure of the read.
C19_ReadNeverFails ==
  \A t \in Threads :
    pc[t] = "done" => /\ path[t] # "keyerror"
                      /\ result[t].obj # 0

\* C15: for every view function that calls ytmusic, a request that repeats
\* the request before it, with no time passed in between, does not enter the
\* body again (the requests considered are those the body passes on to
\* ytmusic: a limit that parses and, for the watch playlist, an identifier).
C15_EveryClientOpCached ==
  \A t \in Threads :
    (/\ pc[t] = "done"
     /\ req[t].op \in ClientOps
     /\ prev.req = req[t]
     /\ ticks = 0
     /\ req[t].lim = "int"
     /\ req[t].op = "watch" => req[t].q # "")
    => execs = prev.execs

\* C16: when two requests with the same key have both missed, both have
\* executed the body, one has stored and the other stores now, then each
\* holds the result of its own execution and keeps it, the entry of the
\* first is replaced, and the cache holds one entry for the key, with the
\* result stored last.
C16_LastWriteWins ==
  [][\A t, u \in Threads :
       (/\ t # u
        /\ pc[t] = "store" /\ pc'[t] = "done"
        /\ pc[u] = "done"
        /\ path[t] = "miss" /\ path[u] = "miss"
        /\ key[t] = key[u]
        /\ CacheOf(req[t].op) = CacheOf(req[u].op))
       => LET cn == CacheOf(req[t].op)
          IN  /\ result[t].obj # result[u].obj
              /\ result[t].op = req[t].op /\ result[u].op = req[u].op
              /\ result'[t] = result[t] /\ result'[u] = result[u]
              /\ EntryOf(cache[cn], key[t]).val = result[u]
              /\ Cardinality({i \in 1..Len(cache'[cn]) :
                                cache'[cn][i].key = key[t]}) = 1
              /\ EntryOf(cache'[cn], key[t]).val = result[t]]_vars

\* both have missed and executed; the one that executed first stored last
C16_Witness ==
  \E t, u \in Threads :
    /\ t # u
    /\ pc[t] = "done" /\ pc[u] = "done"
    /\ path[t] = "miss" /\ path[u] = "miss"
    /\ req[t] = req[u] /\ key[t] = key[u]
    /\ result[t].obj = 1 /\ result[u].obj = 2
    /\ Len(cache["song_cache"]) = 1
    /\ cache["song_cache"][1].val = result[t]

\* C18: every health check ends with a classification, never with an
\* exception, and an instance is classified healthy exactly when its check
\* was answered in time with a 2xx status, whatever the other instances did.
C18_HealthyExactly2xx ==
  \A i \in PIPED_INSTANCES :
    probed[i] \in HealthOutcomes
    => /\ health[i] \in {"True", "False"}
       /\ health[i] = "True" <=> probed[i] \in {"200", "204"}

\* C20: a stream request that has started its fetches is eventually
\* answered, with a success (200), unavailable (503) or error (500), and only
\* one answer: the response does not change once the view function has
\* returned it; and the loop over the results starts only when no fetch of
\* the batch is pending.
C20_StreamCallTerminates ==
  /\ \A t \in Serial :
       (pc[t] = "gather")
         ~> (pc[t] = "done" /\ result[t].status \in {200, 503, 500})
  /\ [][\A t \in Serial :
          /\ (pc[t] = "gather" /\ pc'[t] = "store" /\ result'[t].status \in {200, 503})
               => \A i \in PIPED_INSTANCES : results[t][i] # "pending"
          /\ (pc[t] = "store" /\ req[t].op \in StreamOps)
               => pc'[t] \in {"store", "done"} /\ result'[t] = result[t]]_vars

\* no instance has answered (every fetch ended as None, the last instance
\* first) and the request is answered 503
C20_Witness ==
  \E t \in Serial :
    /\ pc[t] = "store" /\ req[t].op \in StreamOps
    /\ \A i \in PIPED_INSTANCES : results[t][i] = "None"
    /\ first[t] = NumInstances
    /\ result[t].status = 503

====
